---- MODULE Spec2Model ----
(***************************************************************************)
(* A model of generate_error_logs.py: the ErrorGenerator class (identity   *)
(* resolution, the exception synthesizer, the five payload encoders, the   *)
(* batch loop) and main().                                                 *)
(*                                                                         *)
(* Text is modelled as a sequence of tokens, so that joining a prefix to a *)
(* message with " " or with "\n" gives different values.  An optional      *)
(* value (Python None or a string) is a sequence of length 0 or 1.         *)
(***************************************************************************)
EXTENDS Integers, Sequences, FiniteSets, TLC

VARIABLES
    arg_project_id,   \* args.project_id            (optional text)
    arg_prefix,       \* args.prefix                (optional text)
    arg_count,        \* args.count
    arg_type,         \* args.type
    env_GOOGLE_CLOUD_PROJECT,  \* os.environ entry  (optional text)
    env_GCP_PROJECT,           \* os.environ entry  (optional text)
    gcloud,           \* what running `gcloud config get-value project` does
    pc,               \* position in main()
    consulted,        \* identity sources read so far, in order
    project_id,       \* self.project_id            (optional text)
    client,           \* number of logging.Client handles created
    i,                \* loop index of the batch loop
    error_method,     \* encoder invoked by the current iteration
    invocations,      \* number of encoder invocations so far
    synth,            \* result of the last generate_python_exception() call
    draws,            \* random choices made by the current encoder call
    record,           \* payload built by the current encoder call
    calls,            \* number of Transport calls (log_text / log_struct)
    accepted,         \* number of Transport calls that returned normally
    last_call,        \* the last Transport call
    attempts,         \* indices whose dispatch was attempted, in order
    out,              \* per-record progress lines printed, in order
    summary,          \* "Finished generating ..." line printed (optional count)
    ret,              \* value returned by generate_batch_errors (optional)
    exit_status       \* value returned by main() (optional)

vars == <<arg_project_id, arg_prefix, arg_count, arg_type,
          env_GOOGLE_CLOUD_PROJECT, env_GCP_PROJECT, gcloud, pc, consulted,
          project_id, client, i, error_method, invocations, synth, draws,
          record, calls, accepted, last_call, attempts, out, summary, ret,
          exit_status>>

(***************************************************************************)
(* Bounds of the model.                                                    *)
(***************************************************************************)
MaxCount == 2

(***************************************************************************)
(* Python values.                                                          *)
(***************************************************************************)
None == <<>>
Some(v) == <<v>>

\* Python truthiness of an optional string: None and "" are falsy.
Truthy(opt) == Len(opt) = 1 /\ Len(opt[1]) > 0

SP == " "
NL == "\n"

\* str.strip(): drop leading and trailing whitespace tokens.
RECURSIVE LStrip(_)
LStrip(s) == IF s # <<>> /\ Head(s) \in {SP, NL} THEN LStrip(Tail(s)) ELSE s

RECURSIVE RStrip(_)
RStrip(s) == IF s # <<>> /\ s[Len(s)] \in {SP, NL}
             THEN RStrip(SubSeq(s, 1, Len(s) - 1)) ELSE s

Strip(s) == RStrip(LStrip(s))

\* random.randint(a, b), sampled at the two ends of the range.
RandInt(a, b) == {a, b}

\* datetime.utcnow().isoformat(), one instant of the clock.
Clock == {"2025-01-01T00:00:00.000001"}

(***************************************************************************)
(* ErrorGenerator.__init__: identity resolution (lines 29-51).             *)
(***************************************************************************)
\* What `gcloud config get-value project` can do: fail to start, exit
\* non-zero, exit 0 printing nothing but a newline, exit 0 printing an id.
GcloudOutcomes ==
    { [raises |-> TRUE,  returncode |-> 0, stdout |-> <<>>],
      [raises |-> FALSE, returncode |-> 1, stdout |-> <<"proj-cli", NL>>],
      [raises |-> FALSE, returncode |-> 0, stdout |-> <<NL>>],
      [raises |-> FALSE, returncode |-> 0, stdout |-> <<"proj-cli", NL>>] }

\* Mutant of Or: the second operand is preferred.
Or_Swapped(a, b) == IF Truthy(b) THEN b ELSE a

\* Python `a or b` on optional strings.
Or(a, b) == IF Truthy(a) THEN a ELSE b

\* project_id after the environment step (lines 30-32).
AfterEnv(arg, e1, e2) == IF ~Truthy(arg) THEN Or(e1, e2) ELSE arg

\* Mutant of AfterGcloud: the output is tested and used without strip().
AfterGcloud_NoStrip(p, g) ==
    IF ~Truthy(p)
    THEN IF ~g.raises /\ g.returncode = 0 /\ g.stdout # <<>>
         THEN Some(g.stdout)
         ELSE p
    ELSE p

\* project_id after the gcloud step (lines 34-43).
AfterGcloud(p, g) ==
    IF ~Truthy(p)
    THEN IF ~g.raises /\ g.returncode = 0 /\ Strip(g.stdout) # <<>>
         THEN Some(Strip(g.stdout))
         ELSE p
    ELSE p

ResolveProjectId(arg, e1, e2, g) == AfterGcloud(AfterEnv(arg, e1, e2), g)

\* The sources __init__ reads, in the order it reads them.
SourcesRead(arg, e1, e2) ==
    <<"project_id">>
    \o (IF ~Truthy(arg)
        THEN <<"GOOGLE_CLOUD_PROJECT">>
             \o (IF ~Truthy(e1) THEN <<"GCP_PROJECT">> ELSE <<>>)
        ELSE <<>>)
    \o (IF ~Truthy(AfterEnv(arg, e1, e2)) THEN <<"gcloud">> ELSE <<>>)

(***************************************************************************)
(* ErrorGenerator.generate_python_exception (lines 63-86).                 *)
(***************************************************************************)
ErrorTypes == {"division", "index", "key", "value", "type"}

\* The statement run for each error_type and the exception it raises.
Fault(error_type) ==
    CASE error_type = "division" ->
           [cls |-> "ZeroDivisionError",
            msg |-> <<"division by zero">>,
            line |-> <<"line 70", "result = 10 / 0">>]
      [] error_type = "index" ->
           [cls |-> "IndexError",
            msg |-> <<"list index out of range">>,
            line |-> <<"line 73", "item = lst[10]">>]
      [] error_type = "key" ->
           [cls |-> "KeyError",
            msg |-> <<"'nonexistent_key'">>,
            line |-> <<"line 76", "value = d['nonexistent_key']">>]
      [] error_type = "value" ->
           [cls |-> "ValueError",
            msg |-> <<"invalid literal for int() with base 10: 'not_a_number'">>,
            line |-> <<"line 78", "int('not_a_number')">>]
      [] OTHER ->
           [cls |-> "TypeError",
            msg |-> <<"can only concatenate str (not \"int\") to str">>,
            line |-> <<"line 81", "result = \"string\" + 123">>]

\* The exception hierarchy, as far as the classes raised here go.
Base(cls) ==
    CASE cls = "ZeroDivisionError" -> "ArithmeticError"
      [] cls \in {"IndexError", "KeyError"} -> "LookupError"
      [] cls = "ServiceUnavailable" -> "GoogleAPICallError"
      [] cls \in {"ArithmeticError", "LookupError", "ValueError", "TypeError",
                  "GoogleAPICallError"}
           -> "Exception"
      [] cls = "Exception" -> "BaseException"
      [] OTHER -> "object"

RECURSIVE IsSubclass(_, _)
IsSubclass(cls, of) ==
    IF cls = of THEN TRUE
    ELSE IF cls \in {"object", "none"} THEN FALSE
    ELSE IsSubclass(Base(cls), of)

\* Mutant of SynthHandler: the except clause names a narrower class.
SynthHandler_Arithmetic == "ArithmeticError"

\* The class named by the except clause of line 83.
SynthHandler == "Exception"

\* traceback.format_exc() at line 85.
FormatExc(f) ==
    <<"Traceback (most recent call last):", NL,
      "  File \"generate_error_logs.py\", ", f.line[1],
      ", in generate_python_exception", NL,
      "    ", f.line[2], NL,
      f.cls, ": ">> \o f.msg \o <<NL>>

\* Mutant of generate_python_exception: the handler has no return statement.
generate_python_exception_NoReturn(error_type) ==
    [outcome |-> "return", value |-> None, type |-> error_type,
     raised |-> Fault(error_type).cls]

\* The call's outcome: it returns (str(e), stack_trace), returns None when
\* nothing was raised, or lets an exception the handler does not name escape.
generate_python_exception(error_type) ==
    LET f == Fault(error_type) IN
    IF f.cls = "none"
    THEN [outcome |-> "return", value |-> None, type |-> error_type,
          raised |-> f.cls]
    ELSE IF IsSubclass(f.cls, SynthHandler)
    THEN [outcome |-> "return", value |-> <<f.msg, FormatExc(f)>>,
          type |-> error_type, raised |-> f.cls]
    ELSE [outcome |-> "raise", value |-> None, type |-> error_type,
          raised |-> f.cls]

NoSynth == [outcome |-> "none", value |-> None, type |-> "none",
            raised |-> "none"]

(***************************************************************************)
(* The five encoders (lines 88-287).  A structured payload is a function   *)
(* from key paths to values: <<"context", "user">> is payload['context']   *)
(* ['user'].  Each operator takes self.prefix, the pair the synthesizer    *)
(* returned (when the encoder calls it) and the random choices of the      *)
(* call, and gives the Transport call the encoder makes.                   *)
(***************************************************************************)
Str(n) == <<ToString(n)>>

TypeMarker ==
    <<"type.googleapis.com/google.devtools.clouderrorreporting.v1beta1.ReportedErrorEvent">>

error_messages ==
    << <<"Database connection timeout after 30 seconds">>,
       <<"Failed to authenticate user: Invalid credentials">>,
       <<"Payment processing failed: Card declined">>,
       <<"API rate limit exceeded for endpoint /api/v1/users">>,
       <<"File upload failed: Maximum file size exceeded">>,
       <<"Cache miss for key: user_session_12345">> >>

error_scenarios ==
    << [message |-> <<"NullPointerException: Cannot read property \"id\" of null", NL,
                      "at UserService.getUser (UserService.java:45)", NL,
                      "at UserController.handleRequest (UserController.java:123)", NL,
                      "at RequestHandler.process (RequestHandler.java:67)">>,
        service |-> <<"user-service">>,
        http_path |-> <<"/api/users/12345">>],
       [message |-> <<"SQLException: Connection pool exhausted", NL,
                      "at DatabasePool.getConnection (DatabasePool.java:89)", NL,
                      "at OrderRepository.findById (OrderRepository.java:156)", NL,
                      "at OrderService.processOrder (OrderService.java:234)">>,
        service |-> <<"order-service">>,
        http_path |-> <<"/api/orders/process">>],
       [message |-> <<"TimeoutException: Request timed out after 5000ms", NL,
                      "at HttpClient.sendRequest (HttpClient.java:78)", NL,
                      "at PaymentGateway.charge (PaymentGateway.java:45)", NL,
                      "at PaymentService.processPayment (PaymentService.java:123)">>,
        service |-> <<"payment-service">>,
        http_path |-> <<"/api/payments/charge">>] >>

\* The random choices each encoder makes.
DrawsText == [error_type : ErrorTypes]

DrawsJson == [error_type : ErrorTypes,
              user : RandInt(1000, 9999),
              lineNumber : RandInt(30, 50)]

DrawsMessage == [msg : DOMAIN error_messages,
                 method : {"GET", "POST", "PUT", "DELETE"},
                 url : {"users", "orders", "products"},
                 status : {400, 401, 403, 404, 500, 502, 503},
                 user : RandInt(1000, 9999)]

DrawsReported == [scenario : DOMAIN error_scenarios,
                  now : Clock,
                  major : RandInt(1, 3),
                  minor : RandInt(0, 9),
                  patch : RandInt(0, 99),
                  method : {"GET", "POST", "PUT"},
                  ip3 : RandInt(1, 255),
                  ip4 : RandInt(1, 255),
                  user : RandInt(10000, 99999),
                  lineNumber : RandInt(100, 500)]

DrawsCustom == [error_type : ErrorTypes,
                now : Clock,
                environment : {"production", "staging", "development"},
                request_id : RandInt(100000, 999999),
                session_id : RandInt(100000, 999999),
                new_ui : BOOLEAN,
                beta_features : BOOLEAN,
                response_time_ms : RandInt(100, 5000),
                memory_usage_mb : RandInt(50, 500)]

\* Lines 88-101.
log_stack_trace_as_text_payload(prefix, exc, d) ==
    LET stack_trace == IF Truthy(prefix)
                       THEN prefix[1] \o <<NL>> \o exc[2]
                       ELSE exc[2]
    IN [api |-> "log_text", severity |-> "ERROR", body |-> stack_trace]

\* Mutant of log_stack_trace_as_json_payload: the prefix is joined to the
\* message without a separator.
log_stack_trace_as_json_payload_NoSeparator(prefix, exc, d) ==
    LET message0 == <<"Error occurred: ">> \o exc[1]
        message == IF Truthy(prefix) THEN prefix[1] \o message0 ELSE message0
        stack_trace == IF Truthy(prefix)
                       THEN prefix[1] \o <<NL>> \o exc[2]
                       ELSE exc[2]
    IN [api |-> "log_struct", severity |-> "ERROR", body |->
          (<<"message">> :> message)
       @@ (<<"stack_trace">> :> stack_trace)
       @@ (<<"serviceContext", "service">> :> <<"error-reporting-demo">>)
       @@ (<<"serviceContext", "version">> :> <<"1.0.0">>)
       @@ (<<"context", "user">> :> <<"user_">> \o Str(d.user))
       @@ (<<"context", "reportLocation", "filePath">> :> <<"generate_error_logs.py">>)
       @@ (<<"context", "reportLocation", "lineNumber">> :> d.lineNumber)
       @@ (<<"context", "reportLocation", "functionName">>
             :> <<"generate_python_exception">>)]

\* Lines 103-135.
log_stack_trace_as_json_payload(prefix, exc, d) ==
    LET message0 == <<"Error occurred: ">> \o exc[1]
        message == IF Truthy(prefix)
                   THEN prefix[1] \o <<SP>> \o message0
                   ELSE message0
        stack_trace == IF Truthy(prefix)
                       THEN prefix[1] \o <<NL>> \o exc[2]
                       ELSE exc[2]
    IN [api |-> "log_struct", severity |-> "ERROR", body |->
          (<<"message">> :> message)
       @@ (<<"stack_trace">> :> stack_trace)
       @@ (<<"serviceContext", "service">> :> <<"error-reporting-demo">>)
       @@ (<<"serviceContext", "version">> :> <<"1.0.0">>)
       @@ (<<"context", "user">> :> <<"user_">> \o Str(d.user))
       @@ (<<"context", "reportLocation", "filePath">> :> <<"generate_error_logs.py">>)
       @@ (<<"context", "reportLocation", "lineNumber">> :> d.lineNumber)
       @@ (<<"context", "reportLocation", "functionName">>
             :> <<"generate_python_exception">>)]

\* Mutant of log_text_message_error: the payload carries a trace field too.
log_text_message_error_WithTrace(prefix, exc, d) ==
    LET error_msg0 == error_messages[d.msg]
        error_msg == IF Truthy(prefix)
                     THEN prefix[1] \o <<SP>> \o error_msg0
                     ELSE error_msg0
    IN [api |-> "log_struct", severity |-> "ERROR", body |->
          (<<"@type">> :> TypeMarker)
       @@ (<<"message">> :> error_msg)
       @@ (<<"context", "stack_trace">> :> error_msg)
       @@ (<<"serviceContext", "service">> :> <<"error-reporting-demo">>)
       @@ (<<"serviceContext", "version">> :> <<"1.0.0">>)
       @@ (<<"context", "httpRequest", "method">> :> <<d.method>>)
       @@ (<<"context", "httpRequest", "url">>
             :> <<"https://example.com/api/v1/", d.url>>)
       @@ (<<"context", "httpRequest", "responseStatusCode">> :> d.status)
       @@ (<<"context", "user">> :> <<"user_">> \o Str(d.user))]

\* Lines 137-176.
log_text_message_error(prefix, exc, d) ==
    LET error_msg0 == error_messages[d.msg]
        error_msg == IF Truthy(prefix)
                     THEN prefix[1] \o <<SP>> \o error_msg0
                     ELSE error_msg0
    IN [api |-> "log_struct", severity |-> "ERROR", body |->
          (<<"@type">> :> TypeMarker)
       @@ (<<"message">> :> error_msg)
       @@ (<<"serviceContext", "service">> :> <<"error-reporting-demo">>)
       @@ (<<"serviceContext", "version">> :> <<"1.0.0">>)
       @@ (<<"context", "httpRequest", "method">> :> <<d.method>>)
       @@ (<<"context", "httpRequest", "url">>
             :> <<"https://example.com/api/v1/", d.url>>)
       @@ (<<"context", "httpRequest", "responseStatusCode">> :> d.status)
       @@ (<<"context", "user">> :> <<"user_">> \o Str(d.user))]

\* Lines 178-245.
log_reported_error_event_format(prefix, exc, d) ==
    LET scenario == error_scenarios[d.scenario]
        message == IF Truthy(prefix)
                   THEN prefix[1] \o <<NL>> \o scenario.message
                   ELSE scenario.message
    IN [api |-> "log_struct", severity |-> "ERROR", body |->
          (<<"eventTime">> :> <<d.now, "Z">>)
       @@ (<<"serviceContext", "service">> :> scenario.service)
       @@ (<<"serviceContext", "version">>
             :> <<"v">> \o Str(d.major) \o <<".">> \o Str(d.minor)
                \o <<".">> \o Str(d.patch))
       @@ (<<"message">> :> message)
       @@ (<<"context", "httpRequest", "method">> :> <<d.method>>)
       @@ (<<"context", "httpRequest", "url">>
             :> <<"https://api.example.com">> \o scenario.http_path)
       @@ (<<"context", "httpRequest", "userAgent">>
             :> <<"Mozilla/5.0 (X11; Linux x86_64) AppleWebKit/537.36">>)
       @@ (<<"context", "httpRequest", "referrer">> :> <<"https://app.example.com">>)
       @@ (<<"context", "httpRequest", "responseStatusCode">> :> 500)
       @@ (<<"context", "httpRequest", "remoteIp">>
             :> <<"192.168.">> \o Str(d.ip3) \o <<".">> \o Str(d.ip4))
       @@ (<<"context", "user">> :> <<"user_">> \o Str(d.user))
       @@ (<<"context", "reportLocation", "filePath">>
             :> scenario.service \o <<"/Main.java">>)
       @@ (<<"context", "reportLocation", "lineNumber">> :> d.lineNumber)
       @@ (<<"context", "reportLocation", "functionName">> :> <<"handleRequest">>)]

\* Lines 247-287.
log_custom_json_with_embedded_stack_trace(prefix, exc, d) ==
    LET error_msg == IF Truthy(prefix)
                     THEN prefix[1] \o <<SP>> \o exc[1]
                     ELSE exc[1]
        stack_trace == IF Truthy(prefix)
                       THEN prefix[1] \o <<NL>> \o exc[2]
                       ELSE exc[2]
    IN [api |-> "log_struct", severity |-> "ERROR", body |->
          (<<"timestamp">> :> <<d.now>>)
       @@ (<<"application", "name">> :> <<"error-reporting-demo">>)
       @@ (<<"application", "environment">> :> <<d.environment>>)
       @@ (<<"application", "version">> :> <<"2.1.0">>)
       @@ (<<"error_details", "error_type">> :> <<"type">>)
       @@ (<<"error_details", "error_message">> :> error_msg)
       @@ (<<"error_details", "full_stack_trace">> :> stack_trace)
       @@ (<<"error_details", "additional_context", "request_id">>
             :> <<"req_">> \o Str(d.request_id))
       @@ (<<"error_details", "additional_context", "session_id">>
             :> <<"sess_">> \o Str(d.session_id))
       @@ (<<"error_details", "additional_context", "feature_flags", "new_ui">>
             :> d.new_ui)
       @@ (<<"error_details", "additional_context", "feature_flags", "beta_features">>
             :> d.beta_features)
       @@ (<<"metrics", "response_time_ms">> :> d.response_time_ms)
       @@ (<<"metrics", "memory_usage_mb">> :> d.memory_usage_mb)]

\* The encoders by their command-line names (type_map, lines 358-364) ...
Types == {"text", "json", "message", "reported", "custom"}

\* ... those that call generate_python_exception first ...
UsesSynth(t) == t \in {"text", "json", "custom"}

\* ... the random choices of each ...
Draws(t) ==
    CASE t = "text" -> DrawsText
      [] t = "json" -> DrawsJson
      [] t = "message" -> DrawsMessage
      [] t = "reported" -> DrawsReported
      [] OTHER -> DrawsCustom

\* ... and the call each makes on the Transport.
type_map(t, prefix, exc, d) ==
    CASE t = "text" -> log_stack_trace_as_text_payload(prefix, exc, d)
      [] t = "json" -> log_stack_trace_as_json_payload(prefix, exc, d)
      [] t = "message" -> log_text_message_error(prefix, exc, d)
      [] t = "reported" -> log_reported_error_event_format(prefix, exc, d)
      [] OTHER -> log_custom_json_with_embedded_stack_trace(prefix, exc, d)

\* error_methods (lines 294-300): what random.choice draws from.
error_methods == Types

NoRecord == [api |-> "none", severity |-> "none", body |-> <<>>]
NoDraws == [none |-> TRUE]

(***************************************************************************)
(* main() (lines 319-381) and the batch loops (lines 302-309, 367-372).    *)
(***************************************************************************)
\* Mutant of LoopHandler: the except clause names a narrower class.
LoopHandler_ValueError == "ValueError"

\* The class named by the except clause inside the loops (lines 308, 371).
LoopHandler == "Exception"

\* The classes named by the except clauses of main (lines 374, 377).
MainHandlers == {"ValueError", "Exception"}

\* Mutant of ReturnAfterLoop: a failed record makes the command fail.
ReturnAfterLoop_FailIfAny ==
    IF \E k \in DOMAIN out : ~out[k].ok THEN Some(1) ELSE Some(0)

\* What main returns after the loop (line 381).
ReturnAfterLoop == Some(0)

\* Mutant of Marker: the line number is the zero-based index.
Marker_ZeroBased(idx, count, ok, reason) ==
    [n |-> idx, of |-> count, ok |-> ok, reason |-> reason]

\* A progress line "[i+1/count] ..." of lines 307/309 and 370/372.
Marker(idx, count, ok, reason) ==
    [n |-> idx + 1, of |-> count, ok |-> ok, reason |-> reason]

\* Line 351: ErrorGenerator(project_id=args.project_id, prefix=args.prefix),
\* with the handlers of lines 374-379 when it raises.
Construct ==
    /\ pc = "start"
    /\ consulted' = SourcesRead(arg_project_id, env_GOOGLE_CLOUD_PROJECT,
                                env_GCP_PROJECT)
    /\ LET p == ResolveProjectId(arg_project_id, env_GOOGLE_CLOUD_PROJECT,
                                 env_GCP_PROJECT, gcloud)
       IN IF ~Truthy(p)
          THEN \* line 46: ValueError, caught at line 374
               /\ exit_status' = Some(1)
               /\ pc' = "exit"
               /\ UNCHANGED <<project_id, client>>
          ELSE /\ project_id' = p
               /\ \E created \in BOOLEAN :
                    IF created
                    THEN \* line 55: the Transport handle
                         /\ client' = client + 1
                         /\ pc' = "loop"
                         /\ UNCHANGED exit_status
                    ELSE \* logging.Client raises, caught at line 377
                         /\ exit_status' = Some(1)
                         /\ pc' = "exit"
                         /\ UNCHANGED client
    /\ UNCHANGED <<arg_project_id, arg_prefix, arg_count, arg_type,
                   env_GOOGLE_CLOUD_PROJECT, env_GCP_PROJECT, gcloud, i,
                   error_method, invocations, synth, draws, record, calls,
                   accepted, last_call, attempts, out, summary, ret>>

\* Mutant of Selectable: the selected type is ignored.
Selectable_Any(type) == error_methods

\* The encoders random.choice (line 304) or type_map (line 369) can give.
Selectable(type) == IF type = "all" THEN error_methods ELSE {type}

\* An exception of class cls leaves the encoder in iteration i: the loop's
\* handler prints the failure line and the loop goes on, or, for a class the
\* handler does not name, the exception leaves the loop and main's handlers
\* print it and return 1.
Raise(cls) ==
    IF IsSubclass(cls, LoopHandler)
    THEN /\ out' = Append(out, Marker(i, arg_count, FALSE, cls))
         /\ i' = i + 1
         /\ pc' = "loop"
         /\ UNCHANGED exit_status
    ELSE /\ \E h \in MainHandlers : IsSubclass(cls, h)
         /\ exit_status' = Some(1)
         /\ pc' = "exit"
         /\ UNCHANGED <<out, i>>

\* One iteration of the loop up to the encoder's Transport call: the encoder
\* is selected and invoked, it calls the synthesizer when it uses one and
\* builds its payload.  A synthesizer call that raises or returns no pair
\* makes the encoder raise before it builds anything; the loop's handler
\* (line 308 / 371) prints the failure and the loop goes on.
Dispatch ==
    /\ pc = "loop"
    /\ i < arg_count
    /\ attempts' = Append(attempts, i)
    /\ invocations' = invocations + 1
    /\ \E m \in Selectable(arg_type) : \E d \in Draws(m) :
         LET s == IF UsesSynth(m)
                  THEN generate_python_exception(d.error_type)
                  ELSE NoSynth
         IN /\ error_method' = m
            /\ synth' = s
            /\ IF UsesSynth(m) /\ (s.outcome # "return" \/ Len(s.value) # 2)
               THEN /\ draws' = NoDraws
                    /\ record' = NoRecord
                    /\ Raise(IF s.outcome = "raise" THEN s.raised
                             ELSE "TypeError")
               ELSE /\ draws' = d
                    /\ record' = type_map(m, arg_prefix, s.value, d)
                    /\ pc' = "send"
                    /\ UNCHANGED <<out, i, exit_status>>
    /\ UNCHANGED <<arg_project_id, arg_prefix, arg_count, arg_type,
                   env_GOOGLE_CLOUD_PROJECT, env_GCP_PROJECT, gcloud,
                   consulted, project_id, client, calls, accepted, last_call,
                   summary, ret>>

\* The reasons a Transport call can fail with.
TransportErrors == {"ServiceUnavailable"}

\* The encoder's call self.logger.log_text / log_struct(payload,
\* severity='ERROR') and the rest of the iteration: the call returns and the
\* success line is printed, or it raises and the loop's handler prints the
\* failure line; either way the loop goes on to the next index.
Send ==
    /\ pc = "send"
    /\ calls' = calls + 1
    /\ last_call' = [api |-> record.api, severity |-> record.severity]
    /\ \/ /\ accepted' = accepted + 1
          /\ out' = Append(out, Marker(i, arg_count, TRUE, "none"))
          /\ i' = i + 1
          /\ pc' = "loop"
          /\ UNCHANGED exit_status
       \/ /\ \E e \in TransportErrors : Raise(e)
          /\ UNCHANGED accepted
    /\ record' = NoRecord
    /\ draws' = NoDraws
    /\ synth' = NoSynth
    /\ UNCHANGED <<arg_project_id, arg_prefix, arg_count, arg_type,
                   env_GOOGLE_CLOUD_PROJECT, env_GCP_PROJECT, gcloud,
                   consulted, project_id, client, error_method, invocations,
                   attempts, summary, ret>>

\* The loop is over: generate_batch_errors prints its closing lines (lines
\* 311-316) and returns, having no return statement; main returns 0 (line
\* 381).  The single-encoder loop of main prints no closing line.
Finish ==
    /\ pc = "loop"
    /\ ~(i < arg_count)
    /\ IF arg_type = "all"
       THEN /\ summary' = Some(arg_count)
            /\ ret' = [returned |-> TRUE, value |-> None]
       ELSE UNCHANGED <<summary, ret>>
    /\ exit_status' = ReturnAfterLoop
    /\ pc' = "exit"
    /\ synth' = NoSynth
    /\ UNCHANGED <<arg_project_id, arg_prefix, arg_count, arg_type,
                   env_GOOGLE_CLOUD_PROJECT, env_GCP_PROJECT, gcloud,
                   consulted, project_id, client, i, error_method,
                   invocations, draws, record, calls, accepted, last_call,
                   attempts, out>>

Next == Construct \/ Dispatch \/ Send \/ Finish

(***************************************************************************)
(* Initial states: the command line, the environment and the gcloud        *)
(* configuration the program is started with.                              *)
(***************************************************************************)
Counts == (0 - 1) .. MaxCount

Started ==
    /\ pc = "start"
    /\ consulted = <<>>
    /\ project_id = None
    /\ client = 0
    /\ i = 0
    /\ error_method = "none"
    /\ invocations = 0
    /\ synth = NoSynth
    /\ draws = NoDraws
    /\ record = NoRecord
    /\ calls = 0
    /\ accepted = 0
    /\ last_call = [api |-> "none", severity |-> "none"]
    /\ attempts = <<>>
    /\ out = <<>>
    /\ summary = None
    /\ ret = [returned |-> FALSE, value |-> None]
    /\ exit_status = None

\* Every count and type, with and without a prefix, a project that is given
\* on the command line or by gcloud or not at all.
Init ==
    /\ arg_project_id \in {None, Some(<<"proj-arg">>)}
    /\ env_GOOGLE_CLOUD_PROJECT = None
    /\ env_GCP_PROJECT = None
    /\ gcloud \in {g \in GcloudOutcomes : g.raises \/ g.returncode = 0}
    /\ arg_prefix \in {None, Some(<<"TESTRUN">>)}
    /\ arg_count \in Counts
    /\ arg_type \in Types \cup {"all"}
    /\ Started

Spec == Init /\ [][Next]_vars

\* Every combination of identity sources, present, empty or absent.
InitResolve ==
    /\ arg_project_id \in {None, Some(<<>>), Some(<<"proj-arg">>)}
    /\ env_GOOGLE_CLOUD_PROJECT \in {None, Some(<<>>), Some(<<"proj-env1">>)}
    /\ env_GCP_PROJECT \in {None, Some(<<>>), Some(<<"proj-env2">>)}
    /\ gcloud \in GcloudOutcomes
    /\ arg_prefix = None
    /\ arg_count = 1
    /\ arg_type = "text"
    /\ Started

SpecResolve == InitResolve /\ [][Next]_vars

\* Every encoder and every prefix: absent, empty, one word, two words.
Prefixes == {None, Some(<<>>), Some(<<"TESTRUN">>), Some(<<"TEST", SP, "RUN">>)}

InitEncoders ==
    /\ arg_project_id = Some(<<"proj-arg">>)
    /\ env_GOOGLE_CLOUD_PROJECT = None
    /\ env_GCP_PROJECT = None
    /\ gcloud \in {g \in GcloudOutcomes : g.raises}
    /\ arg_prefix \in Prefixes
    /\ arg_count = 1
    /\ arg_type \in Types \cup {"all"}
    /\ Started

SpecEncoders == InitEncoders /\ [][Next]_vars

(***************************************************************************)
(* Properties.                                                             *)
(***************************************************************************)
\* The progress lines that report a success, and those that report a failure.
OkLines == {k \in DOMAIN out : out[k].ok}
FailLines == {k \in DOMAIN out : ~out[k].ok}

\* The loop was entered and the command has ended.
BatchOver == pc = "exit" /\ client = 1

\* The encoder a payload comes from, told by the fields only it has.
ShapeName(r) ==
    CASE r.api = "log_text" -> "text"
      [] r.api = "log_struct" /\ <<"stack_trace">> \in DOMAIN r.body -> "json"
      [] r.api = "log_struct" /\ <<"@type">> \in DOMAIN r.body -> "message"
      [] r.api = "log_struct" /\ <<"eventTime">> \in DOMAIN r.body -> "reported"
      [] r.api = "log_struct"
         /\ <<"error_details", "full_stack_trace">> \in DOMAIN r.body -> "custom"
      [] OTHER -> "none"

\* C1: batch failure isolation.  The indices attempted are 0, 1, 2, ... in
\* increasing order; whatever sends fail, in the mixed batch and in the
\* single-encoder batch alike, a batch of count >= 0 ends having attempted
\* exactly count dispatches, each with its own progress line: a failure at
\* index i does not keep i+1 .. count-1 from being attempted.
C1_FailureIsolation ==
    /\ \A k \in DOMAIN attempts : attempts[k] = k - 1
    /\ Len(out) <= Len(attempts)
    /\ (BatchOver /\ arg_count >= 0) =>
          /\ Len(attempts) = arg_count
          /\ Len(out) = arg_count

C1_Witness ==
    /\ BatchOver
    /\ arg_type = "all"
    /\ arg_count = 2
    /\ attempts = <<0, 1>>
    /\ FailLines = {1, 2}

C3_OneSendPerDispatch ==
    /\ calls = Len(out)
    /\ calls = i
    /\ calls > 0 => last_call.severity = "ERROR" /\ last_call.api # "none"
    /\ pc = "send" =>
          /\ record.severity = "ERROR"
          /\ ShapeName(record) = error_method
    /\ pc # "send" => record.api = "none"
    /\ accepted = Cardinality(OkLines)
    /\ (BatchOver /\ arg_count >= 0) => calls = arg_count

C3_Witness ==
    /\ BatchOver
    /\ arg_count = 2
    /\ calls = 2
    /\ accepted = 1
    /\ arg_type = "custom"

\* The text an encoder starts from, and the fields it emits.
HasMessage == error_method \in {"json", "message", "reported", "custom"}
HasTrace == error_method \in {"text", "json", "custom"}

OriginalMessage ==
    CASE error_method = "json" -> <<"Error occurred: ">> \o synth.value[1]
      [] error_method = "message" -> error_messages[draws.msg]
      [] error_method = "reported" -> error_scenarios[draws.scenario].message
      [] OTHER -> synth.value[1]

OriginalTrace == synth.value[2]

EmittedMessage ==
    IF error_method = "custom"
    THEN record.body[<<"error_details", "error_message">>]
    ELSE record.body[<<"message">>]

EmittedTrace ==
    CASE error_method = "text" -> record.body
      [] error_method = "json" -> record.body[<<"stack_trace">>]
      [] OTHER -> record.body[<<"error_details", "full_stack_trace">>]

PrefixSet == Len(arg_prefix) = 1 /\ arg_prefix[1] # <<>>

Joined(sep, original) ==
    IF PrefixSet THEN arg_prefix[1] \o <<sep>> \o original ELSE original

\* C4 as stated: in every encoder the trace field is prefix + newline + trace
\* and the message field is prefix + one space + message, the originals
\* unchanged when no prefix is set.
C4_UniformPrefix ==
    pc = "send" =>
       /\ HasTrace => EmittedTrace = Joined(NL, OriginalTrace)
       /\ HasMessage => EmittedMessage = Joined(SP, OriginalMessage)

\* C4 as amended: the trace field is prefix + newline + trace; the message
\* field is prefix + one space + message in the json, message and custom
\* encoders and prefix + newline + message in the reported encoder; with no
\* prefix, or an empty one, the fields are the originals unchanged.
C4_PrefixPerEncoder ==
    pc = "send" =>
       /\ HasTrace => EmittedTrace = Joined(NL, OriginalTrace)
       /\ HasMessage =>
             EmittedMessage =
                Joined(IF error_method = "reported" THEN NL ELSE SP,
                       OriginalMessage)

C4_Witness ==
    /\ pc = "send"
    /\ error_method = "reported"
    /\ arg_prefix = Some(<<"TESTRUN">>)
    /\ SubSeq(record.body[<<"message">>], 1, 2) = <<"TESTRUN", NL>>

\* C5: exit status.  Once the generator is constructed the command returns 0,
\* for every count, type and pattern of failed sends; it returns non-zero
\* only when no project was resolved or the Transport handle could not be
\* created, and then before any record was dispatched.
C5_ExitStatus ==
    /\ pc # "exit" => exit_status = None
    /\ pc = "exit" =>
          /\ exit_status \in {Some(0), Some(1)}
          /\ client = 1 => exit_status = Some(0)
          /\ exit_status # Some(0) =>
                /\ client = 0
                /\ attempts = <<>>
                /\ calls = 0

C5_Witness ==
    /\ pc = "exit"
    /\ client = 1
    /\ arg_type = "json"
    /\ arg_count = 2
    /\ FailLines = {1, 2}
    /\ exit_status = Some(0)

\* No source gives a project: the parameter and both environment variables
\* are absent or empty, and gcloud fails or prints nothing but whitespace.
NothingResolvable ==
    /\ ~(Len(arg_project_id) = 1 /\ arg_project_id[1] # <<>>)
    /\ ~(Len(env_GOOGLE_CLOUD_PROJECT) = 1 /\ env_GOOGLE_CLOUD_PROJECT[1] # <<>>)
    /\ ~(Len(env_GCP_PROJECT) = 1 /\ env_GCP_PROJECT[1] # <<>>)
    /\ \/ gcloud.raises
       \/ gcloud.returncode # 0
       \/ \A k \in DOMAIN gcloud.stdout : gcloud.stdout[k] \in {SP, NL}

\* C6: the configuration error precedes everything.  With no project
\* resolvable no Transport handle is created, no encoder is invoked, no
\* Transport call is made, no iteration runs, and the command ends with a
\* non-zero status.
C6_ConfigurationErrorFirst ==
    NothingResolvable =>
       /\ client = 0
       /\ invocations = 0
       /\ calls = 0
       /\ attempts = <<>>
       /\ out = <<>>
       /\ pc \in {"start", "exit"}
       /\ pc = "exit" => exit_status = Some(1) /\ project_id = None

C6_Witness ==
    /\ NothingResolvable
    /\ pc = "exit"
    /\ arg_project_id = Some(<<>>)
    /\ ~gcloud.raises
    /\ gcloud.returncode = 0
    /\ exit_status = Some(1)

\* What the identity sources give, by priority.
Given(src) == Len(src) = 1 /\ src[1] # <<>>

GcloudGives ==
    /\ ~gcloud.raises
    /\ gcloud.returncode = 0
    /\ \E k \in DOMAIN gcloud.stdout : gcloud.stdout[k] \notin {SP, NL}

NonBlank(t) == t \notin {SP, NL}

ByPriority ==
    IF Given(arg_project_id) THEN arg_project_id
    ELSE IF Given(env_GOOGLE_CLOUD_PROJECT) THEN env_GOOGLE_CLOUD_PROJECT
    ELSE IF Given(env_GCP_PROJECT) THEN env_GCP_PROJECT
    ELSE IF GcloudGives THEN Some(SelectSeq(gcloud.stdout, NonBlank))
    ELSE None

Reads(src) == Cardinality({k \in DOMAIN consulted : consulted[k] = src})

\* C7: identity resolution priority.  The project used is the parameter when
\* given, else GOOGLE_CLOUD_PROJECT, else GCP_PROJECT, else what gcloud
\* prints when it exits 0 with non-blank output; a source is read only when
\* every source before it gave nothing, a failing gcloud counts as nothing,
\* and each source is read at most once.
C7_ResolutionPriority ==
    pc # "start" =>
       /\ project_id = ByPriority
       /\ Reads("project_id") = 1
       /\ Reads("GOOGLE_CLOUD_PROJECT") =
             (IF Given(arg_project_id) THEN 0 ELSE 1)
       /\ Reads("GCP_PROJECT") =
             (IF Given(arg_project_id) \/ Given(env_GOOGLE_CLOUD_PROJECT)
              THEN 0 ELSE 1)
       /\ Reads("gcloud") =
             (IF Given(arg_project_id) \/ Given(env_GOOGLE_CLOUD_PROJECT)
                 \/ Given(env_GCP_PROJECT)
              THEN 0 ELSE 1)

C7_Witness ==
    /\ pc # "start"
    /\ arg_project_id = Some(<<>>)
    /\ env_GOOGLE_CLOUD_PROJECT = None
    /\ env_GCP_PROJECT = Some(<<>>)
    /\ project_id = Some(<<"proj-cli">>)
    /\ consulted = <<"project_id", "GOOGLE_CLOUD_PROJECT", "GCP_PROJECT", "gcloud">>

\* The exception each fault category is meant to raise.
InducedFault(error_type) ==
    CASE error_type = "division" -> "ZeroDivisionError"
      [] error_type = "index" -> "IndexError"
      [] error_type = "key" -> "KeyError"
      [] error_type = "value" -> "ValueError"
      [] OTHER -> "TypeError"

\* C8: synthesis never fails.  Whatever category is chosen, the call raises
\* that category's fault, catches it and returns a (message, stack trace)
\* pair: it never lets the fault out and never returns without a pair, so an
\* encoder that uses the synthesizer always gets to its Transport call.
C8_SynthesisNeverFails ==
    /\ synth.outcome # "none" =>
          /\ synth.type \in ErrorTypes
          /\ synth.raised = InducedFault(synth.type)
          /\ synth.outcome = "return"
          /\ Len(synth.value) = 2
          /\ synth.value[1] # <<>>
          /\ synth.value[2] # <<>>
          /\ pc = "send"
    /\ (pc = "send" /\ error_method \in {"text", "json", "custom"}) =>
          synth.outcome = "return"

C8_Witness ==
    /\ pc = "send"
    /\ synth.type = "key"
    /\ synth.raised = "KeyError"
    /\ synth.outcome = "return"
    /\ synth.value[1] = <<"'nonexistent_key'">>

\* C9: typed-marker record shape.  Every payload of the message encoder, for
\* every random choice and every prefix, is structured, has the @type field
\* with the ReportedErrorEvent type, has a message field and has no key named
\* stack_trace or full_stack_trace at any level.
C9_TypedMarkerShape ==
    (pc = "send" /\ error_method = "message") =>
       /\ record.api = "log_struct"
       /\ <<"@type">> \in DOMAIN record.body
       /\ record.body[<<"@type">>] =
             <<"type.googleapis.com/google.devtools.clouderrorreporting.v1beta1.ReportedErrorEvent">>
       /\ <<"message">> \in DOMAIN record.body
       /\ record.body[<<"message">>] # <<>>
       /\ \A path \in DOMAIN record.body : \A k \in DOMAIN path :
             path[k] \notin {"stack_trace", "full_stack_trace"}

C9_Witness ==
    /\ pc = "send"
    /\ error_method = "message"
    /\ arg_prefix = Some(<<"TEST", SP, "RUN">>)
    /\ draws.status = 503
    /\ <<"@type">> \in DOMAIN record.body

\* C10: mode selection.  Every iteration invokes exactly one encoder; with a
\* single type selected it is that encoder, and the payload has its shape;
\* with "all" it is one of the five, drawn again at each iteration.
C10_ModeSelection ==
    /\ invocations = Len(attempts)
    /\ calls <= invocations
    /\ invocations > 0 =>
          /\ error_method \in Types
          /\ arg_type # "all" => error_method = arg_type
    /\ pc = "send" =>
          /\ ShapeName(record) = error_method
          /\ arg_type # "all" => ShapeName(record) = arg_type

C10_Witness ==
    /\ arg_type = "all"
    /\ pc = "send"
    /\ i = 1
    /\ last_call.api = "log_text"
    /\ error_method = "reported"
    /\ ShapeName(record) = "reported"

====
